---- MODULE Spec2Model ----
(***************************************************************************)
(* Size attribution engine of bundle-squeeze (src/src/app.tsx): the module *)
(* index (findModule), the memoised transitive closure                     *)
(* (allTransitiveDependencies), the stack based walker (reachableFrom) and *)
(* the Sizer with its three caches, driven by the App's signals.           *)
(***************************************************************************)
EXTENDS Integers, Sequences, FiniteSets, TLC

VARIABLES
    modules,                      \* App.modules: the record collection
    ignoredModules,               \* App.ignoredModules: insertion ordered Set of ids
    sizer,                        \* the value held by the computed App.sizer
    sizerStale,                   \* a signal the computed reads changed since it ran
    transitiveDependenciesCache,  \* the global closure memo
    threw,                        \* which call of the last step raised, or "none"
    ops,                          \* number of steps not answered from a cache
    call,                         \* an allTransitiveDependencies call, frame by frame
    walk                          \* a reachableFrom traversal, iteration by iteration

vars == <<modules, ignoredModules, sizer, sizerStale,
          transitiveDependenciesCache, threw, ops, call, walk>>

----------------------------------------------------------------------------
(* Bounds *)

MaxPathLen == 3

MaxOps == 3

----------------------------------------------------------------------------
(* Records *)

Undefined == -1

NUL == "\\0"

EmptyMap == <<>>

ModuleInfo(id, sz, rendered, imported, dynamic) ==
    [id |-> id, size |-> sz, renderedSize |-> rendered,
     importedIds |-> imported, dynamicallyImportedIds |-> dynamic]

NotFound == [error |-> "Module not found"]

MaxOf(S) == CHOOSE x \in S : \A y \in S : y <= x

\* new Map(modules.map(m => [m.id, m])).get(id): the last record with the id
findModule(mods, id) ==
    LET hits == {i \in DOMAIN mods : mods[i].id = id}
    IN  IF hits = {} THEN NotFound ELSE mods[MaxOf(hits)]

\* a slip: only the static imports are searched
importersStaticOnly(mods, id) ==
    {i \in DOMAIN mods :
        \E k \in DOMAIN mods[i].importedIds : mods[i].importedIds[k] = id}

importers(mods, id) ==
    {i \in DOMAIN mods :
        \/ \E k \in DOMAIN mods[i].importedIds : mods[i].importedIds[k] = id
        \/ \E k \in DOMAIN mods[i].dynamicallyImportedIds :
              mods[i].dynamicallyImportedIds[k] = id}

entryPoints(mods) ==
    {mods[i].id : i \in {j \in DOMAIN mods : importers(mods, mods[j].id) = {}}}

\* a slip: the size before rendering, even when the rendered size is known
sizeBeforeRendering(module) == module.size

size(module) ==
    IF module.renderedSize = Undefined THEN module.size ELSE module.renderedSize

RECURSIVE SumSizes(_, _)
SumSizes(mods, ids) ==
    IF ids = {} THEN 0
    ELSE LET id == CHOOSE x \in ids : TRUE
         IN  size(findModule(mods, id)) + SumSizes(mods, ids \ {id})

----------------------------------------------------------------------------
(* allTransitiveDependencies: result, memo and visited set after the call; *)
(* threw is TRUE when a findModule inside it raised.                       *)

RECURSIVE allTransitiveDependencies(_, _, _, _)
RECURSIVE importedLoop(_, _, _, _, _, _)

importedLoop(mods, imported, i, cache, visited, deps) ==
    IF i > Len(imported)
    THEN [cache |-> cache, visited |-> visited, deps |-> deps, threw |-> FALSE]
    ELSE LET depModule == findModule(mods, imported[i])
         IN  IF depModule = NotFound
             THEN [cache |-> cache, visited |-> visited, deps |-> deps,
                   threw |-> TRUE]
             ELSE LET r == allTransitiveDependencies(mods, depModule.id,
                                                     cache, visited)
                  IN  IF r.threw THEN r
                      ELSE importedLoop(mods, imported, i + 1, r.cache,
                                        r.visited,
                                        deps \cup {depModule.id} \cup r.deps)

\* a slip: the module's own id is put into its closure
allTransitiveDependenciesWithSelf(mods, id, cache, visited) ==
    IF id \in DOMAIN cache
    THEN [cache |-> cache, visited |-> visited, deps |-> cache[id],
          threw |-> FALSE]
    ELSE IF id \in visited
    THEN [cache |-> cache, visited |-> visited, deps |-> {}, threw |-> FALSE]
    ELSE LET r == importedLoop(mods, findModule(mods, id).importedIds, 1,
                               cache, visited \cup {id}, {id})
         IN  IF r.threw THEN r
             ELSE [cache |-> (id :> r.deps) @@ r.cache,
                   visited |-> r.visited, deps |-> r.deps, threw |-> FALSE]

allTransitiveDependencies(mods, id, cache, visited) ==
    IF id \in DOMAIN cache
    THEN [cache |-> cache, visited |-> visited, deps |-> cache[id],
          threw |-> FALSE]
    ELSE IF id \in visited
    THEN [cache |-> cache, visited |-> visited, deps |-> {}, threw |-> FALSE]
    ELSE LET r == importedLoop(mods, findModule(mods, id).importedIds, 1,
                               cache, visited \cup {id}, {})
         IN  IF r.threw THEN r
             ELSE [cache |-> (id :> r.deps) @@ r.cache,
                   visited |-> r.visited, deps |-> r.deps, threw |-> FALSE]

----------------------------------------------------------------------------
(* reachableFrom: the sequence of yielded ids; threw is TRUE when the      *)
(* generator raised before finishing.                                      *)

\* a slip: only the lengths are compared
uniqueConditionLengthOnly(p, path) == ~ (Len(p) = Len(path))

uniqueCondition(p, path) ==
    ~ (Len(p) = Len(path) /\ \A i \in DOMAIN p : p[i] = path[i])

\* a slip: the first element of the path is tested instead of the last
removedConditionFirst(p, id) == p[1] # id

removedCondition(p, id) == p[Len(p)] # id

condition(cond, p) ==
    CASE cond.kind = "any"     -> TRUE
      [] cond.kind = "unique"  -> uniqueCondition(p, cond.path)
      [] cond.kind = "removed" -> removedCondition(p, cond.id)

AnyPath == [kind |-> "any"]

RECURSIVE pushImported(_, _, _, _, _, _, _)
pushImported(mods, imported, i, path, stack, visited, cond) ==
    IF i > Len(imported) THEN [stack |-> stack, threw |-> FALSE]
    ELSE IF imported[i] \in visited
    THEN pushImported(mods, imported, i + 1, path, stack, visited, cond)
    ELSE LET depModule == findModule(mods, imported[i])
         IN  IF depModule = NotFound THEN [stack |-> stack, threw |-> TRUE]
             ELSE LET newPath == Append(path, depModule.id)
                  IN  pushImported(mods, imported, i + 1, path,
                                   IF condition(cond, newPath)
                                   THEN Append(stack, newPath) ELSE stack,
                                   visited, cond)

RECURSIVE walkLoop(_, _, _, _, _)
walkLoop(mods, stack, visited, yielded, cond) ==
    IF stack = <<>> THEN [yielded |-> yielded, threw |-> FALSE]
    ELSE LET path    == stack[Len(stack)]
             current == path[Len(path)]
             seen    == visited \cup {current}
             out     == Append(yielded, current)
             r == pushImported(mods, findModule(mods, current).importedIds, 1,
                               path, SubSeq(stack, 1, Len(stack) - 1), seen,
                               cond)
         IN  IF r.threw THEN [yielded |-> out, threw |-> TRUE]
             ELSE walkLoop(mods, r.stack, seen, out, cond)

reachableFrom(mods, entryPoint, cond) ==
    IF ~ condition(cond, <<entryPoint>>)
    THEN [yielded |-> <<>>, threw |-> FALSE]
    ELSE walkLoop(mods, << <<entryPoint>> >>, {}, <<>>, cond)

Range(s) == {s[i] : i \in DOMAIN s}

Last(p) == p[Len(p)]

----------------------------------------------------------------------------
(* Sizer *)

RECURSIVE SizerLoop(_, _, _, _, _)

\* a slip: an ignored id that has no record is kept without a lookup
SizerLoopNoLookup(mods, ignored, i, cache, acc) ==
    IF i > Len(ignored) THEN [ignored |-> acc, cache |-> cache, threw |-> FALSE]
    ELSE IF findModule(mods, ignored[i]) = NotFound
    THEN SizerLoop(mods, ignored, i + 1, cache, acc \cup {ignored[i]})
    ELSE LET r == allTransitiveDependencies(mods, ignored[i], cache, {})
         IN  IF r.threw
             THEN [ignored |-> acc, cache |-> r.cache, threw |-> TRUE]
             ELSE SizerLoop(mods, ignored, i + 1, r.cache,
                            acc \cup {ignored[i]} \cup r.deps)

\* a slip: only the ids the caller ignored, without their dependencies
SizerLoopIdsOnly(mods, ignored, i, cache, acc) ==
    IF i > Len(ignored) THEN [ignored |-> acc, cache |-> cache, threw |-> FALSE]
    ELSE IF findModule(mods, ignored[i]) = NotFound
    THEN [ignored |-> acc, cache |-> cache, threw |-> TRUE]
    ELSE SizerLoop(mods, ignored, i + 1, cache, acc \cup {ignored[i]})

SizerLoop(mods, ignored, i, cache, acc) ==
    IF i > Len(ignored) THEN [ignored |-> acc, cache |-> cache, threw |-> FALSE]
    ELSE IF findModule(mods, ignored[i]) = NotFound
    THEN [ignored |-> acc, cache |-> cache, threw |-> TRUE]
    ELSE LET r == allTransitiveDependencies(mods, ignored[i], cache, {})
         IN  IF r.threw
             THEN [ignored |-> acc, cache |-> r.cache, threw |-> TRUE]
             ELSE SizerLoop(mods, ignored, i + 1, r.cache,
                            acc \cup {ignored[i]} \cup r.deps)

\* new Sizer(modules, ignoredModules); ok is FALSE when the constructor raised
NewSizer(mods, ignored, cache) ==
    LET r == SizerLoop(mods, ignored, 1, cache, {})
    IN  [sizer |-> [ok |-> ~ r.threw,
                    ignoredModules |-> r.ignored,
                    totalSizeCache |-> EmptyMap,
                    uniqueSizeCache |-> EmptyMap,
                    removedSizeCache |-> EmptyMap],
         cache |-> r.cache]

NoSizer ==
    [ok |-> FALSE, ignoredModules |-> {}, totalSizeCache |-> EmptyMap,
     uniqueSizeCache |-> EmptyMap, removedSizeCache |-> EmptyMap]

RECURSIVE JoinIds(_)
JoinIds(path) ==
    IF Len(path) = 0 THEN ""
    ELSE IF Len(path) = 1 THEN path[1]
    ELSE path[1] \o NUL \o JoinIds(Tail(path))

uniqueKey(entryPoint, path) == entryPoint \o NUL \o JoinIds(path)

removedKey(entryPoint, id) == entryPoint \o NUL \o id

total(s, mods, id, cache) ==
    IF id \in DOMAIN s.totalSizeCache
    THEN [sizer |-> s, cache |-> cache, threw |-> FALSE,
          value |-> s.totalSizeCache[id]]
    ELSE LET r == allTransitiveDependencies(mods, id, cache, {})
             own == IF id \in s.ignoredModules THEN 0
                    ELSE size(findModule(mods, id))
             counted == (r.deps \ {id}) \ s.ignoredModules
             sum == own + SumSizes(mods, counted)
         IN  IF r.threw \/ \E dep \in counted : findModule(mods, dep) = NotFound
             THEN [sizer |-> s, cache |-> r.cache, threw |-> TRUE, value |-> 0]
             ELSE [sizer |-> [s EXCEPT !.totalSizeCache = (id :> sum) @@ @],
                   cache |-> r.cache, threw |-> FALSE, value |-> sum]

\* a slip: the routes of every entry point are subtracted, not only those
\* of the row's own entry point
uniqueFromEveryEntry(s, mods, entryPoint, path) ==
    LET cacheKey == uniqueKey(entryPoint, path)
        cond == [kind |-> "unique", path |-> path]
        a == reachableFrom(mods, path[Len(path)], AnyPath)
        b == UNION {Range(reachableFrom(mods, e, cond).yielded) :
                      e \in entryPoints(mods)}
        sum == SumSizes(mods, (Range(a.yielded) \ b) \ s.ignoredModules)
    IN  IF cacheKey \in DOMAIN s.uniqueSizeCache
        THEN [sizer |-> s, threw |-> FALSE, value |-> s.uniqueSizeCache[cacheKey]]
        ELSE [sizer |-> [s EXCEPT !.uniqueSizeCache = (cacheKey :> sum) @@ @],
              threw |-> FALSE, value |-> sum]

unique(s, mods, entryPoint, path) ==
    LET cacheKey == uniqueKey(entryPoint, path)
    IN  IF cacheKey \in DOMAIN s.uniqueSizeCache
        THEN [sizer |-> s, threw |-> FALSE, value |-> s.uniqueSizeCache[cacheKey]]
        ELSE LET a == reachableFrom(mods, path[Len(path)], AnyPath)
                 b == reachableFrom(mods, entryPoint,
                                    [kind |-> "unique", path |-> path])
                 sum == SumSizes(mods, (Range(a.yielded) \ Range(b.yielded))
                                          \ s.ignoredModules)
             IN  IF a.threw \/ b.threw
                 THEN [sizer |-> s, threw |-> TRUE, value |-> 0]
                 ELSE [sizer |-> [s EXCEPT !.uniqueSizeCache =
                                               (cacheKey :> sum) @@ @],
                       threw |-> FALSE, value |-> sum]

removed(s, mods, entryPoint, id) ==
    LET cacheKey == removedKey(entryPoint, id)
    IN  IF cacheKey \in DOMAIN s.removedSizeCache
        THEN [sizer |-> s, threw |-> FALSE,
              value |-> s.removedSizeCache[cacheKey]]
        ELSE LET a == reachableFrom(mods, id, AnyPath)
                 b == reachableFrom(mods, entryPoint,
                                    [kind |-> "removed", id |-> id])
                 sum == SumSizes(mods, (Range(a.yielded) \ Range(b.yielded))
                                          \ s.ignoredModules)
             IN  IF a.threw \/ b.threw
                 THEN [sizer |-> s, threw |-> TRUE, value |-> 0]
                 ELSE [sizer |-> [s EXCEPT !.removedSizeCache =
                                               (cacheKey :> sum) @@ @],
                       threw |-> FALSE, value |-> sum]

----------------------------------------------------------------------------
(* The rows the table can show: paths from an entry point along resolvable *)
(* static imports.                                                         *)

RECURSIVE PathsFrom(_, _)
PathsFrom(mods, p) ==
    {p} \cup
    IF Len(p) >= MaxPathLen THEN {}
    ELSE LET imported == findModule(mods, p[Len(p)]).importedIds
         IN  UNION {PathsFrom(mods, Append(p, imported[k])) :
                      k \in {j \in DOMAIN imported :
                               findModule(mods, imported[j]) # NotFound}}

Rows(mods) == UNION {PathsFrom(mods, <<e>>) : e \in entryPoints(mods)}

RowModules(mods) == {p[Len(p)] : p \in Rows(mods)}

----------------------------------------------------------------------------
(* Record collections *)

ImportsE == {<<"A">>, <<"A", "B">>}

ImportsA == {<<"B">>, <<"B", "F">>}

ImportsB == {<<>>, <<"A">>, <<"F">>}

Collection(ie, ia, ib, db, if) ==
    << ModuleInfo("E", 40, 10, ie, <<>>),
       ModuleInfo("A", 20, Undefined, ia, <<>>),
       ModuleInfo("B", 9, 5, ib, db),
       ModuleInfo("F", 1, Undefined, if, <<>>) >>

\* B always imports F lazily. Besides the product: E's imports in the other
\* order, imports of "X", an id no record has, F importing itself, and E
\* entering the cycle of A and B at B
Collections ==
    {Collection(ie, ia, ib, <<"F">>, <<>>) :
        ie \in ImportsE, ia \in ImportsA, ib \in ImportsB}
    \cup {Collection(<<"B", "A">>, <<"B">>, ib, <<"F">>, <<>>) : ib \in ImportsB}
    \cup {Collection(ie, <<"X">>, <<"F">>, <<"F">>, <<>>) : ie \in ImportsE}
    \cup {Collection(<<"A">>, <<"B", "F">>, <<"A">>, <<"F">>, <<"F">>)}
    \cup {Collection(<<"B">>, <<"B", "F">>, <<"A">>, <<"F">>, <<>>)}

\* the chain E -> A -> B of the concrete scenarios, without and with F -> B
Chain ==
    << ModuleInfo("E", 40, 10, <<"A">>, <<>>),
       ModuleInfo("A", 20, Undefined, <<"B">>, <<>>),
       ModuleInfo("B", 9, 5, <<>>, <<>>) >>

ChainWithF == Collection(<<"A">>, <<"B">>, <<>>, <<>>, <<"B">>)

----------------------------------------------------------------------------
(* Steps *)

NoCall == [status |-> "idle", id |-> "", frames |-> <<>>, visited |-> {}]

NoWalk == [status |-> "idle", from |-> "", stack |-> <<>>, visited |-> {},
           yielded |-> <<>>, cond |-> AnyPath]

Init ==
    /\ modules \in Collections
    /\ ignoredModules = <<>>
    /\ sizer = NoSizer
    /\ sizerStale = TRUE
    /\ transitiveDependenciesCache = EmptyMap
    /\ threw = "none"
    /\ ops = 0
    /\ call = NoCall
    /\ walk = NoWalk

\* sizer.value: the computed reruns when a signal it read has changed
SizerValue ==
    IF sizerStale
    THEN NewSizer(modules, ignoredModules, transitiveDependenciesCache)
    ELSE [sizer |-> sizer, cache |-> transitiveDependenciesCache]

\* the call is answered from the cache of the Sizer in use
Cached(cache, key) == ~ sizerStale /\ sizer.ok /\ key \in DOMAIN cache

SizerRaised(sv) ==
    /\ sizer' = sv.sizer
    /\ transitiveDependenciesCache' = sv.cache
    /\ threw' = "sizer"

Total(id) ==
    /\ ops < MaxOps
    /\ ops' = IF Cached(sizer.totalSizeCache, id) THEN ops ELSE ops + 1
    /\ sizerStale' = FALSE
    /\ UNCHANGED <<modules, ignoredModules, call, walk>>
    /\ LET sv == SizerValue
       IN  IF ~ sv.sizer.ok THEN SizerRaised(sv)
           ELSE LET r == total(sv.sizer, modules, id, sv.cache)
                IN  /\ sizer' = r.sizer
                    /\ transitiveDependenciesCache' = r.cache
                    /\ threw' = IF r.threw THEN "total" ELSE "none"

Unique(entryPoint, path) ==
    /\ ops < MaxOps
    /\ ops' = IF Cached(sizer.uniqueSizeCache, uniqueKey(entryPoint, path)) THEN ops ELSE ops + 1
    /\ sizerStale' = FALSE
    /\ UNCHANGED <<modules, ignoredModules, call, walk>>
    /\ LET sv == SizerValue
       IN  IF ~ sv.sizer.ok THEN SizerRaised(sv)
           ELSE LET r == unique(sv.sizer, modules, entryPoint, path)
                IN  /\ sizer' = r.sizer
                    /\ transitiveDependenciesCache' = sv.cache
                    /\ threw' = IF r.threw THEN "unique" ELSE "none"

Removed(entryPoint, id) ==
    /\ ops < MaxOps
    /\ ops' = IF Cached(sizer.removedSizeCache, removedKey(entryPoint, id)) THEN ops ELSE ops + 1
    /\ sizerStale' = FALSE
    /\ UNCHANGED <<modules, ignoredModules, call, walk>>
    /\ LET sv == SizerValue
       IN  IF ~ sv.sizer.ok THEN SizerRaised(sv)
           ELSE LET r == removed(sv.sizer, modules, entryPoint, id)
                IN  /\ sizer' = r.sizer
                    /\ transitiveDependenciesCache' = sv.cache
                    /\ threw' = IF r.threw THEN "removed" ELSE "none"

SelectSeq2(s, id) == SelectSeq(s, LAMBDA m : m # id)

\* the ignore button: a new Set without, or with, the row's module id
toggledIgnore(ignored, id) ==
    IF id \in Range(ignored) THEN SelectSeq2(ignored, id)
    ELSE Append(ignored, id)

\* a slip: the Set is changed in place, so the computed sizer is not rerun
ToggleIgnoreInPlace(id) ==
    /\ ops < MaxOps
    /\ ops' = ops + 1
    /\ ignoredModules' = toggledIgnore(ignoredModules, id)
    /\ threw' = "none"
    /\ UNCHANGED <<modules, sizer, sizerStale, transitiveDependenciesCache,
                   call, walk>>

\* the computed drops the Sizer it held: it is rebuilt at the next read
ToggleIgnore(id) ==
    /\ ops < MaxOps
    /\ ops' = ops + 1
    /\ ignoredModules' = toggledIgnore(ignoredModules, id)
    /\ sizerStale' = TRUE
    /\ sizer' = NoSizer
    /\ threw' = "none"
    /\ UNCHANGED <<modules, transitiveDependenciesCache, call, walk>>

Next ==
    \/ \E id \in RowModules(modules) : Total(id)
    \/ \E p \in Rows(modules) : Unique(p[1], p)
    \/ \E p \in Rows(modules) : Removed(p[1], Last(p))
    \/ \E id \in RowModules(modules) : ToggleIgnore(id)

Spec == Init /\ [][Next]_vars

----------------------------------------------------------------------------
(* The closure and the walker one step at a time. A frame of the closure   *)
(* is a module, the index of its next import, and the deps found so far.   *)

\* the value a nested call returned is added to the caller's deps
answered(frames, id, result) ==
    IF frames = <<>> THEN <<>>
    ELSE [frames EXCEPT ![Len(frames)] =
             [@ EXCEPT !.deps = @ \cup {id} \cup result, !.i = @ + 1]]

\* a slip: no test of the visited set
closureCallUnguarded(frames, visited, cache, id) ==
    IF id \in DOMAIN cache
    THEN [frames |-> answered(frames, id, cache[id]), visited |-> visited]
    ELSE [frames |-> Append(frames, [id |-> id, i |-> 1, deps |-> {}]),
          visited |-> visited \cup {id}]

\* allTransitiveDependencies(modules, id, visited) up to its loop
closureCall(frames, visited, cache, id) ==
    IF id \in DOMAIN cache
    THEN [frames |-> answered(frames, id, cache[id]), visited |-> visited]
    ELSE IF id \in visited
    THEN [frames |-> answered(frames, id, {}), visited |-> visited]
    ELSE [frames |-> Append(frames, [id |-> id, i |-> 1, deps |-> {}]),
          visited |-> visited \cup {id}]

Running == call.status = "running" \/ walk.status = "running"

ClosureStart(id) ==
    /\ ~ Running
    /\ LET r == closureCall(<<>>, {}, transitiveDependenciesCache, id)
       IN  call' = [status |-> IF r.frames = <<>> THEN "done" ELSE "running",
                    id |-> id, frames |-> r.frames, visited |-> r.visited]
    /\ walk' = NoWalk
    /\ UNCHANGED <<modules, ignoredModules, sizer, sizerStale,
                   transitiveDependenciesCache, threw, ops>>

ClosureStep ==
    /\ call.status = "running"
    /\ LET frame == Last(call.frames)
           rest == SubSeq(call.frames, 1, Len(call.frames) - 1)
           imported == findModule(modules, frame.id).importedIds
       IN  IF frame.i > Len(imported)
           THEN /\ transitiveDependenciesCache' =
                       (frame.id :> frame.deps) @@ transitiveDependenciesCache
                /\ call' = [call EXCEPT
                               !.status = IF rest = <<>> THEN "done"
                                          ELSE "running",
                               !.frames = answered(rest, frame.id, frame.deps)]
           ELSE IF findModule(modules, imported[frame.i]) = NotFound
           THEN /\ call' = [call EXCEPT !.status = "threw", !.frames = <<>>]
                /\ UNCHANGED transitiveDependenciesCache
           ELSE LET r == closureCall(call.frames, call.visited,
                                     transitiveDependenciesCache,
                                     imported[frame.i])
                IN  /\ call' = [call EXCEPT !.frames = r.frames,
                                            !.visited = r.visited]
                    /\ UNCHANGED transitiveDependenciesCache
    /\ UNCHANGED <<modules, ignoredModules, sizer, sizerStale, threw, ops,
                   walk>>

WalkStart(entryPoint, cond) ==
    /\ ~ Running
    /\ walk' = IF condition(cond, <<entryPoint>>)
               THEN [status |-> "running", from |-> entryPoint,
                     stack |-> << <<entryPoint>> >>, visited |-> {},
                     yielded |-> <<>>, cond |-> cond]
               ELSE [status |-> "done", from |-> entryPoint, stack |-> <<>>,
                     visited |-> {}, yielded |-> <<>>, cond |-> cond]
    /\ call' = NoCall
    /\ UNCHANGED <<modules, ignoredModules, sizer, sizerStale,
                   transitiveDependenciesCache, threw, ops>>

WalkStep ==
    /\ walk.status = "running"
    /\ IF walk.stack = <<>> THEN walk' = [walk EXCEPT !.status = "done"]
       ELSE LET path == Last(walk.stack)
                current == Last(path)
                seen == walk.visited \cup {current}
                r == pushImported(modules,
                                  findModule(modules, current).importedIds, 1,
                                  path,
                                  SubSeq(walk.stack, 1, Len(walk.stack) - 1),
                                  seen, walk.cond)
            IN  walk' = [walk EXCEPT
                            !.status = IF r.threw THEN "threw" ELSE "running",
                            !.stack = r.stack, !.visited = seen,
                            !.yielded = Append(@, current)]
    /\ UNCHANGED <<modules, ignoredModules, sizer, sizerStale,
                   transitiveDependenciesCache, threw, ops, call>>

\* the traversals the Sizer asks for: from a module with no predicate, and
\* from an entry point with the predicate of unique or of removed
Traversals(mods) ==
    {[from |-> id, cond |-> AnyPath] : id \in RowModules(mods)}
    \cup {[from |-> p[1], cond |-> [kind |-> "unique", path |-> p]] :
             p \in Rows(mods)}
    \cup {[from |-> p[1], cond |-> [kind |-> "removed", id |-> Last(p)]] :
             p \in Rows(mods)}

\* a cycle of three modules, and imports in both directions with self-imports
Cycles ==
    {Collection(<<"A">>, <<"B">>, <<"F">>, <<>>, <<"A">>),
     Collection(<<"A", "B">>, <<"A", "B">>, <<"A", "F">>, <<>>, <<"F", "B">>)}

InitSteps ==
    /\ modules \in Collections \cup Cycles
    /\ ignoredModules = <<>>
    /\ sizer = NoSizer
    /\ sizerStale = TRUE
    /\ transitiveDependenciesCache = EmptyMap
    /\ threw = "none"
    /\ ops = 0
    /\ call = NoCall
    /\ walk = NoWalk

NextSteps ==
    \/ \E id \in RowModules(modules) : ClosureStart(id)
    \/ ClosureStep
    \/ \E t \in Traversals(modules) : WalkStart(t.from, t.cond)
    \/ WalkStep

\* the code is synchronous: a call that has begun takes its next step
SpecSteps ==
    InitSteps /\ [][NextSteps]_vars
        /\ WF_vars(ClosureStep) /\ WF_vars(WalkStep)

InitScenario ==
    /\ modules \in {Chain, ChainWithF}
    /\ ignoredModules = <<>>
    /\ sizer = NoSizer
    /\ sizerStale = TRUE
    /\ transitiveDependenciesCache = EmptyMap
    /\ threw = "none"
    /\ ops = 0
    /\ call = NoCall
    /\ walk = NoWalk

SpecScenario == InitScenario /\ [][Next]_vars

\* the Sizer after the three calls of a row: each call fills its own cache,
\* and a call that raises ends the render
rendered(s, t, u, r) ==
    [s EXCEPT !.totalSizeCache = t.sizer.totalSizeCache,
              !.uniqueSizeCache = IF t.threw THEN @
                                  ELSE u.sizer.uniqueSizeCache,
              !.removedSizeCache = IF t.threw \/ u.threw THEN @
                                   ELSE r.sizer.removedSizeCache]

raised(t, u, r) ==
    IF t.threw THEN "total"
    ELSE IF u.threw THEN "unique"
    ELSE IF r.threw THEN "removed" ELSE "none"

\* one row of the table is rendered: the Module component reads the total,
\* the unique and the removed size of its path, in this order
Module(path) ==
    /\ ops < MaxOps
    /\ ops' = ops + 1
    /\ sizerStale' = FALSE
    /\ UNCHANGED <<modules, ignoredModules, call, walk>>
    /\ \E sv \in {SizerValue} :
          IF ~ sv.sizer.ok THEN SizerRaised(sv)
          ELSE \E t \in {total(sv.sizer, modules, Last(path), sv.cache)},
                  u \in {unique(sv.sizer, modules, path[1], path)},
                  r \in {removed(sv.sizer, modules, path[1], Last(path))} :
                  /\ transitiveDependenciesCache' = t.cache
                  /\ threw' = raised(t, u, r)
                  /\ sizer' = rendered(sv.sizer, t, u, r)

\* the App is mounted again and loads a collection: new signals, while the
\* closure memo, a constant of the script, stays
Mount(mods) ==
    /\ ops < MaxOps
    /\ ops' = ops + 1
    /\ mods # modules
    /\ modules' = mods
    /\ ignoredModules' = <<>>
    /\ sizerStale' = TRUE
    /\ sizer' = NoSizer
    /\ threw' = "none"
    /\ UNCHANGED <<transitiveDependenciesCache, call, walk>>

\* collections with the same ids, without cycles and without imports of
\* ids that have no record, that differ in the static imports of A and F
Mounts ==
    {Collection(<<"A">>, ia, <<>>, <<>>, if) :
        ia \in {<<"B">>, <<>>}, if \in {<<"B">>, <<"A">>}}

InitMounts ==
    /\ modules \in Mounts
    /\ ignoredModules = <<>>
    /\ sizer = NoSizer
    /\ sizerStale = TRUE
    /\ transitiveDependenciesCache = EmptyMap
    /\ threw = "none"
    /\ ops = 0
    /\ call = NoCall
    /\ walk = NoWalk

NextMounts ==
    \/ \E mods \in Mounts : Mount(mods)
    \/ \E id \in RowModules(modules) : Total(id)
    \/ \E id \in RowModules(modules) : ToggleIgnore(id)

SpecMounts == InitMounts /\ [][NextMounts]_vars

\* the Sizer's second argument drawn from the Sets a caller can build over
\* the ids of the collection and "X", an id no record has
Ids(mods) == {mods[i].id : i \in DOMAIN mods}

IgnoreInputs(mods) ==
    {<<>>}
    \cup {<<x>> : x \in Ids(mods) \cup {"X"}}
    \cup {<<x, "X">> : x \in Ids(mods)}

InitSizer ==
    /\ modules \in {Chain, ChainWithF}
    /\ ignoredModules \in IgnoreInputs(modules)
    /\ sizer = NoSizer
    /\ sizerStale = TRUE
    /\ transitiveDependenciesCache = EmptyMap
    /\ threw = "none"
    /\ ops = 0
    /\ call = NoCall
    /\ walk = NoWalk

SpecSizer == InitSizer /\ [][Next]_vars

\* mapId of the plugin keeps the leading NUL of a virtual module's id, and a
\* path below a virtual id has a NUL inside
Virtual(id) == NUL \o id

Within(a, b) == a \o NUL \o b

\* two entry points; E imports a module whose id is a, NUL, b and the module
\* a, which imports b; the other entry point, a virtual module, imports b
VirtualModules ==
    << ModuleInfo("E", 10, Undefined, <<Within("a", "b"), "a">>, <<>>),
       ModuleInfo(Within("a", "b"), 7, Undefined, <<>>, <<>>),
       ModuleInfo("a", 20, Undefined, <<"b">>, <<>>),
       ModuleInfo("b", 5, Undefined, <<>>, <<>>),
       ModuleInfo(Within("E", "a"), 3, Undefined, <<"b">>, <<>>),
       ModuleInfo(Virtual("v"), 2, Undefined, <<"b">>, <<>>) >>

InitKeys ==
    /\ modules \in {VirtualModules}
    /\ ignoredModules = <<>>
    /\ sizer = NoSizer
    /\ sizerStale = TRUE
    /\ transitiveDependenciesCache = EmptyMap
    /\ threw = "none"
    /\ ops = 0
    /\ call = NoCall
    /\ walk = NoWalk

NextKeys ==
    \/ \E p \in Rows(modules) : Unique(p[1], p)
    \/ \E p \in Rows(modules) : Removed(p[1], Last(p))
    \/ \E id \in RowModules(modules) : ToggleIgnore(id)

SpecKeys == InitKeys /\ [][NextKeys]_vars

NextRows ==
    \/ \E p \in Rows(modules) : Module(p)
    \/ \E id \in RowModules(modules) : Total(id)
    \/ \E p \in Rows(modules) : Unique(p[1], p)
    \/ \E p \in Rows(modules) : Removed(p[1], Last(p))
    \/ \E id \in RowModules(modules) : ToggleIgnore(id)

SpecRows == InitScenario /\ [][NextRows]_vars

----------------------------------------------------------------------------
(* The graph the records describe: static edges whose target has a record *)

StaticImports(mods, id) ==
    LET imported == findModule(mods, id).importedIds
    IN  {imported[k] : k \in {j \in DOMAIN imported :
                                findModule(mods, imported[j]) # NotFound}}

RECURSIVE Grow(_, _, _)
Grow(mods, seen, banned) ==
    LET more == seen \cup
                ((UNION {StaticImports(mods, x) : x \in seen}) \ banned)
    IN  IF more = seen THEN seen ELSE Grow(mods, more, banned)

\* the ids reachable from the ids of start, start included, never entering banned
Reach(mods, start, banned) == Grow(mods, start \ banned, banned)

OnCycle(mods, id) == id \in Reach(mods, StaticImports(mods, id), {})

HasDanglingEdge(mods) ==
    \E i \in DOMAIN mods : \E k \in DOMAIN mods[i].importedIds :
        findModule(mods, mods[i].importedIds[k]) = NotFound

\* the routes that continue p: sequences of static imports that repeat no id
RECURSIVE Routes(_, _)
Routes(mods, p) ==
    {p} \cup UNION {Routes(mods, Append(p, d)) :
                      d \in StaticImports(mods, Last(p)) \ Range(p)}

IsPrefix(p, q) == Len(p) <= Len(q) /\ \A i \in DOMAIN p : p[i] = q[i]

\* the ids the head of path reaches by a route that does not go along path
OtherRoutes(mods, path) ==
    {Last(q) : q \in {r \in Routes(mods, <<path[1]>>) : ~ IsPrefix(path, r)}}

SizerCurrent == sizer.ok /\ ~ sizerStale

----------------------------------------------------------------------------
(* Properties *)

\* C1: in a collection with a dangling static import, total, unique and
\* removed return a number: none of them raises.
DanglingEdgesNeverRaise ==
    HasDanglingEdge(modules) => threw \notin {"total", "unique", "removed"}

\* what total(id) returns when nothing has been asked before: a new closure
\* memo and a new Sizer for the same records and the same ignore Set
FirstTotal(id) ==
    LET ns == NewSizer(modules, ignoredModules, EmptyMap)
    IN  IF ~ ns.sizer.ok THEN [threw |-> TRUE, value |-> 0]
        ELSE total(ns.sizer, modules, id, ns.cache)

\* C2: for fixed records and a fixed ignore set, every total(m) that was
\* returned is the value total(m) has when no other query came before it.
TotalIndependentOfHistory ==
    SizerCurrent =>
        \A id \in DOMAIN sizer.totalSizeCache :
            /\ ~ FirstTotal(id).threw
            /\ sizer.totalSizeCache[id] = FirstTotal(id).value

\* C3: total(m) is the summed self size of the modules reachable from m over
\* static imports, m included, each once, the ignored ones counting 0.
TotalIsReachableSum ==
    sizer.ok =>
        \A id \in DOMAIN sizer.totalSizeCache :
            sizer.totalSizeCache[id] =
                SumSizes(modules,
                         Reach(modules, {id}, {}) \ sizer.ignoredModules)

\* C4: unique(entryPoint, path) is the summed self size of the non-ignored
\* modules reachable from the last module of path that entryPoint reaches by
\* no route other than exactly path.
UniqueIsExclusiveToPath ==
    sizer.ok =>
        \A p \in Rows(modules) :
            uniqueKey(p[1], p) \in DOMAIN sizer.uniqueSizeCache =>
                sizer.uniqueSizeCache[uniqueKey(p[1], p)] =
                    SumSizes(modules,
                             (Reach(modules, {Last(p)}, {})
                                \ OtherRoutes(modules, p))
                                \ sizer.ignoredModules)

LostOnDeletion(entryPoint, id) ==
    Reach(modules, {id}, {}) \ Reach(modules, {entryPoint}, {id})

\* C5: every removed(entryPoint, module) that was returned is the summed self
\* size of the non-ignored modules reachable from module and not reachable
\* from entryPoint once module is deleted; for module = entryPoint that is
\* everything reachable from it.
RemovedIsLostOnDeletion ==
    sizer.ok =>
        \A p \in Rows(modules) :
            removedKey(p[1], Last(p)) \in DOMAIN sizer.removedSizeCache =>
                /\ sizer.removedSizeCache[removedKey(p[1], Last(p))] =
                       SumSizes(modules, LostOnDeletion(p[1], Last(p))
                                            \ sizer.ignoredModules)
                /\ Last(p) = p[1] =>
                       LostOnDeletion(p[1], Last(p)) =
                           Reach(modules, {p[1]}, {})

\* a removed size was returned for a module whose deletion leaves part of
\* what it reaches alive, and for an entry point itself
RemovedWitness ==
    /\ sizer.ok
    /\ \E p \in Rows(modules) :
          /\ Len(p) > 1
          /\ removedKey(p[1], Last(p)) \in DOMAIN sizer.removedSizeCache
          /\ sizer.removedSizeCache[removedKey(p[1], Last(p))] > 0
          /\ LostOnDeletion(p[1], Last(p)) # Reach(modules, {Last(p)}, {})
    /\ \E e \in entryPoints(modules) :
          removedKey(e, e) \in DOMAIN sizer.removedSizeCache

\* C6: for every path from an entry point that ends at a module, the removed
\* size of the module is at least the unique size of the path.
RemovedAtLeastUnique ==
    sizer.ok =>
        \A p \in Rows(modules) :
            (/\ uniqueKey(p[1], p) \in DOMAIN sizer.uniqueSizeCache
             /\ removedKey(p[1], Last(p)) \in DOMAIN sizer.removedSizeCache)
            => sizer.removedSizeCache[removedKey(p[1], Last(p))] >=
                   sizer.uniqueSizeCache[uniqueKey(p[1], p)]

\* both sizes were returned for one path, under a non-empty ignore set, and
\* the removed size is strictly the larger
RemovedAtLeastUniqueWitness ==
    /\ sizer.ok
    /\ sizer.ignoredModules # {}
    /\ \E p \in Rows(modules) :
          /\ uniqueKey(p[1], p) \in DOMAIN sizer.uniqueSizeCache
          /\ removedKey(p[1], Last(p)) \in DOMAIN sizer.removedSizeCache
          /\ sizer.removedSizeCache[removedKey(p[1], Last(p))] >
                 sizer.uniqueSizeCache[uniqueKey(p[1], p)]

\* C8 as stated: no module is a member of its own closure.
ClosureExcludesSelf ==
    \A id \in DOMAIN transitiveDependenciesCache :
        id \notin transitiveDependenciesCache[id]

\* C8: a module that lies on no static import cycle is not a member of its
\* own closure; only a module on a cycle through itself can be.
ClosureHasSelfOnlyOnCycle ==
    \A id \in DOMAIN transitiveDependenciesCache :
        ~ OnCycle(modules, id) => id \notin transitiveDependenciesCache[id]

\* closures were computed for a module off every cycle that has dependencies
\* and for a module on a cycle that is in its own closure
ClosureSelfWitness ==
    \E a, b \in DOMAIN transitiveDependenciesCache :
        /\ ~ OnCycle(modules, a)
        /\ transitiveDependenciesCache[a] # {}
        /\ OnCycle(modules, b)
        /\ b \in transitiveDependenciesCache[b]

\* C9: after any toggles and queries, the sizer in use holds the expansion
\* of the current ignore Set and every size it has returned is the size
\* computed, without its caches, under that set.
NoStaleSizes ==
    SizerCurrent =>
        LET now == NewSizer(modules, ignoredModules,
                            transitiveDependenciesCache)
            rows == Rows(modules)
        IN  /\ now.sizer.ok
            /\ sizer.ignoredModules = now.sizer.ignoredModules
            /\ \A id \in DOMAIN sizer.totalSizeCache :
                  sizer.totalSizeCache[id] =
                      total(now.sizer, modules, id, now.cache).value
            /\ \A p \in rows :
                  /\ uniqueKey(p[1], p) \in DOMAIN sizer.uniqueSizeCache =>
                        sizer.uniqueSizeCache[uniqueKey(p[1], p)] =
                            unique(now.sizer, modules, p[1], p).value
                  /\ removedKey(p[1], Last(p))
                        \in DOMAIN sizer.removedSizeCache =>
                        sizer.removedSizeCache[removedKey(p[1], Last(p))] =
                            removed(now.sizer, modules, p[1], Last(p)).value
            /\ DOMAIN sizer.uniqueSizeCache \subseteq
                  {uniqueKey(p[1], p) : p \in rows}
            /\ DOMAIN sizer.removedSizeCache \subseteq
                  {removedKey(p[1], Last(p)) : p \in rows}

\* a total was returned under a non-empty ignore set that lowers it, after a
\* closure had been computed for a query made before the toggle
NoStaleSizesWitness ==
    /\ SizerCurrent
    /\ ignoredModules # <<>>
    /\ \E id \in DOMAIN sizer.totalSizeCache :
          sizer.totalSizeCache[id] <
              SumSizes(modules, transitiveDependenciesCache[id] \cup {id})
    /\ \E old \in DOMAIN transitiveDependenciesCache :
          old \notin Reach(modules,
                           Range(ignoredModules)
                              \cup DOMAIN sizer.totalSizeCache, {})

IgnoringOnlyA ==
    modules = ChainWithF /\ SizerCurrent /\ ignoredModules = <<"A">>

\* C10 as stated: in the chain with F, ignoring only A, total(E) is 10 and
\* total(F) is 6.
IgnoringAKeepsBForF ==
    IgnoringOnlyA =>
        /\ "E" \in DOMAIN sizer.totalSizeCache => sizer.totalSizeCache["E"] = 10
        /\ "F" \in DOMAIN sizer.totalSizeCache => sizer.totalSizeCache["F"] = 6

\* C10: in the chain with F, ignoring only A, total(E) is 10 and total(F) is
\* 1: B is in the expansion of the ignore set and counts toward no total.
IgnoringAIgnoresBForF ==
    IgnoringOnlyA =>
        /\ sizer.ignoredModules = {"A", "B"}
        /\ "E" \in DOMAIN sizer.totalSizeCache => sizer.totalSizeCache["E"] = 10
        /\ "F" \in DOMAIN sizer.totalSizeCache => sizer.totalSizeCache["F"] = 1

\* both totals were returned while only A was ignored
IgnoringAWitness ==
    /\ IgnoringOnlyA
    /\ {"E", "F"} \subseteq DOMAIN sizer.totalSizeCache

NoReentry ==
    \A i, j \in DOMAIN call.frames :
        i # j => call.frames[i].id # call.frames[j].id

\* C7: on every collection, cyclic ones included, the recursive closure never
\* has one module in two frames, every closure call ends, and every traversal
\* of the walker ends, with an empty stack unless a lookup raised.
TraversalsTerminate ==
    /\ []NoReentry
    /\ [](walk.status = "done" => walk.stack = <<>>)
    /\ (call.status = "running") ~> (call.status \in {"done", "threw"})
    /\ (walk.status = "running") ~> (walk.status \in {"done", "threw"})

\* a closure was memoised for a module on a cycle, its own id in it, and a
\* traversal that began on a cycle has ended
TraversalsTerminateWitness ==
    /\ \E id \in DOMAIN transitiveDependenciesCache :
          OnCycle(modules, id) /\ id \in transitiveDependenciesCache[id]
    /\ walk.status = "done"
    /\ OnCycle(modules, walk.from)
    /\ Cardinality(walk.visited) > 2

\* what total(id) returns when the caller's ignore Set is empty, the closure
\* memo being what it is now
TotalUnignored(id) ==
    LET ns == NewSizer(modules, <<>>, transitiveDependenciesCache)
    IN  total(ns.sizer, modules, id, ns.cache).value

IsLeaf(mods, id) ==
    findModule(mods, id) # NotFound /\ findModule(mods, id).importedIds = <<>>

\* C11: when the ignore set goes from empty to one leaf module L, total(m)
\* drops by exactly the self size of L for every m that reaches L over static
\* imports, and is unchanged for every other m.
LeafIgnoreLowersAncestors ==
    \A L \in RowModules(modules) :
        (SizerCurrent /\ ignoredModules = <<L>> /\ IsLeaf(modules, L)) =>
            \A id \in DOMAIN sizer.totalSizeCache :
                sizer.totalSizeCache[id] =
                    TotalUnignored(id) -
                        IF L \in Reach(modules, {id}, {})
                        THEN size(findModule(modules, L)) ELSE 0

\* C12: for an entry point E, unique(E, [E]) and total(E), once both were
\* returned by the sizer in use, are equal.
UniqueOfEntryIsTotal ==
    sizer.ok =>
        \A e \in entryPoints(modules) :
            (/\ uniqueKey(e, <<e>>) \in DOMAIN sizer.uniqueSizeCache
             /\ e \in DOMAIN sizer.totalSizeCache)
            => sizer.uniqueSizeCache[uniqueKey(e, <<e>>)] =
                   sizer.totalSizeCache[e]

NoIgnores == SizerCurrent /\ ignoredModules = <<>>

\* C13: in the chain E -> A -> B with self sizes 10, 20, 5 and no ignores,
\* whatever was asked before, total(E) = 35, total(A) = 25, total(B) = 5,
\* unique(E, [E,A]) = 25, unique(E, [E,A,B]) = 5 and removed(E, B) = 5.
ChainSizes ==
    (modules = Chain /\ NoIgnores) =>
        /\ \A id \in DOMAIN sizer.totalSizeCache :
              sizer.totalSizeCache[id] =
                  CASE id = "E" -> 35 [] id = "A" -> 25 [] id = "B" -> 5
        /\ LET ea == uniqueKey("E", <<"E", "A">>)
               eab == uniqueKey("E", <<"E", "A", "B">>)
               eb == removedKey("E", "B")
           IN  /\ ea \in DOMAIN sizer.uniqueSizeCache =>
                     sizer.uniqueSizeCache[ea] = 25
               /\ eab \in DOMAIN sizer.uniqueSizeCache =>
                     sizer.uniqueSizeCache[eab] = 5
               /\ eb \in DOMAIN sizer.removedSizeCache =>
                     sizer.removedSizeCache[eb] = 5

\* the six sizes of the scenario were all returned by one sizer
ChainSizesWitness ==
    /\ modules = Chain
    /\ NoIgnores
    /\ DOMAIN sizer.totalSizeCache = {"E", "A", "B"}
    /\ uniqueKey("E", <<"E", "A">>) \in DOMAIN sizer.uniqueSizeCache
    /\ uniqueKey("E", <<"E", "A", "B">>) \in DOMAIN sizer.uniqueSizeCache
    /\ removedKey("E", "B") \in DOMAIN sizer.removedSizeCache

\* a sizer of the chain without F that has returned nothing yet
ChainSizer == [NoSizer EXCEPT !.ok = TRUE]

\* C14: with the second entry point F -> B added to the chain, every unique
\* and removed size of a row of E is what it is in the chain without F; in
\* particular removed(E, B) = 5 and unique(E, [E,A,B]) = 5.
SecondEntryLeavesRowsOfE ==
    (modules = ChainWithF /\ NoIgnores) =>
        /\ \A p \in Rows(Chain) :
              /\ uniqueKey("E", p) \in DOMAIN sizer.uniqueSizeCache =>
                    sizer.uniqueSizeCache[uniqueKey("E", p)] =
                        unique(ChainSizer, Chain, "E", p).value
              /\ removedKey("E", Last(p)) \in DOMAIN sizer.removedSizeCache =>
                    sizer.removedSizeCache[removedKey("E", Last(p))] =
                        removed(ChainSizer, Chain, "E", Last(p)).value
        /\ unique(ChainSizer, Chain, "E", <<"E", "A", "B">>).value = 5
        /\ removed(ChainSizer, Chain, "E", "B").value = 5

\* both sizes were returned for the row E, A, B while F, which also reaches
\* B, is an entry point with its own rows
SecondEntryWitness ==
    /\ modules = ChainWithF
    /\ NoIgnores
    /\ "F" \in entryPoints(modules)
    /\ uniqueKey("E", <<"E", "A", "B">>) \in DOMAIN sizer.uniqueSizeCache
    /\ removedKey("E", "B") \in DOMAIN sizer.removedSizeCache
    /\ "F" \in DOMAIN sizer.totalSizeCache
    /\ sizer.totalSizeCache["F"] = 6

\* the ids some record names in its static imports, in its dynamic imports
StaticallyNamed(mods) == UNION {Range(mods[i].importedIds) : i \in DOMAIN mods}

DynamicallyNamed(mods) ==
    UNION {Range(mods[i].dynamicallyImportedIds) : i \in DOMAIN mods}

\* the modules that are imported, and only dynamically
OnlyDynamic(mods) ==
    {mods[i].id : i \in DOMAIN mods} \cap
        (DynamicallyNamed(mods) \ StaticallyNamed(mods))

\* the same records, the module d weighing nothing
Weightless(mods, d) ==
    [i \in DOMAIN mods |->
        IF mods[i].id = d
        THEN [mods[i] EXCEPT !.size = 0, !.renderedSize = Undefined]
        ELSE mods[i]]

\* C15: the entry points are exactly the modules no record names in its
\* static or dynamic imports; a module imported only dynamically is no entry
\* point, and no total, unique or removed size that was returned counts it.
EntryPointsAreUnimported ==
    /\ entryPoints(modules) =
          {modules[i].id : i \in DOMAIN modules}
              \ (StaticallyNamed(modules) \cup DynamicallyNamed(modules))
    /\ \A d \in OnlyDynamic(modules) :
          /\ d \notin entryPoints(modules)
          /\ sizer.ok =>
                LET light == Weightless(modules, d)
                    fresh == [sizer EXCEPT !.totalSizeCache = EmptyMap,
                                           !.uniqueSizeCache = EmptyMap,
                                           !.removedSizeCache = EmptyMap]
                IN  /\ \A id \in DOMAIN sizer.totalSizeCache :
                          sizer.totalSizeCache[id] =
                              total(fresh, light, id,
                                    transitiveDependenciesCache).value
                    /\ \A p \in Rows(modules) :
                          /\ uniqueKey(p[1], p) \in DOMAIN sizer.uniqueSizeCache
                                => sizer.uniqueSizeCache[uniqueKey(p[1], p)] =
                                       unique(fresh, light, p[1], p).value
                          /\ removedKey(p[1], Last(p))
                                \in DOMAIN sizer.removedSizeCache
                                => sizer.removedSizeCache[
                                       removedKey(p[1], Last(p))] =
                                       removed(fresh, light, p[1],
                                               Last(p)).value

\* the three sizes of an entry point were returned in a collection where a
\* module with a positive size is imported only dynamically, by a module the
\* entry point reaches
EntryPointsWitness ==
    /\ sizer.ok
    /\ \E d \in OnlyDynamic(modules), e \in entryPoints(modules) :
          /\ size(findModule(modules, d)) > 0
          /\ \E i \in DOMAIN modules :
                /\ modules[i].id \in Reach(modules, {e}, {})
                /\ d \in Range(modules[i].dynamicallyImportedIds)
          /\ e \in DOMAIN sizer.totalSizeCache
          /\ uniqueKey(e, <<e>>) \in DOMAIN sizer.uniqueSizeCache
          /\ removedKey(e, e) \in DOMAIN sizer.removedSizeCache

\* C16: in one traversal of the walker no module is yielded twice, and a
\* finished traversal with the default predicate has yielded every module
\* reachable from its start.
YieldedAtMostOnce ==
    /\ \A i, j \in DOMAIN walk.yielded :
          i # j => walk.yielded[i] # walk.yielded[j]
    /\ (walk.status = "done" /\ walk.cond = AnyPath) =>
          Range(walk.yielded) = Reach(modules, {walk.from}, {})

\* the sequences with the elements of s, each as often as in s
Orders(s) ==
    {t \in [DOMAIN s -> Range(s)] :
        \A x \in Range(s) :
            Cardinality({i \in DOMAIN s : t[i] = x}) =
                Cardinality({i \in DOMAIN s : s[i] = x})}

\* the collections that differ from mods in the order of static imports only
Reordered(mods) ==
    {[i \in DOMAIN mods |-> [mods[i] EXCEPT !.importedIds = c[i]]] :
        c \in {d \in [DOMAIN mods ->
                        UNION {Orders(mods[i].importedIds) : i \in DOMAIN mods}] :
                 \A i \in DOMAIN mods : d[i] \in Orders(mods[i].importedIds)}}

\* C17: every unique(entryPoint, path) that was returned, and the set the
\* walker yields under the predicate of that unique, are the same for every
\* order of every module's static imports.
WalkerOrderIndependent ==
    sizer.ok =>
        \A p \in Rows(modules) :
            uniqueKey(p[1], p) \in DOMAIN sizer.uniqueSizeCache =>
                \A other \in Reordered(modules) :
                    LET cond == [kind |-> "unique", path |-> p]
                        fresh == [sizer EXCEPT !.uniqueSizeCache = EmptyMap]
                    IN  /\ Range(reachableFrom(other, p[1], cond).yielded) =
                              Range(reachableFrom(modules, p[1], cond).yielded)
                        /\ unique(fresh, other, p[1], p).value =
                              sizer.uniqueSizeCache[uniqueKey(p[1], p)]

\* C18: after a mount with another collection, every total the sizer of the
\* mounted collection has returned is the sum over what its module reaches
\* along the static imports of that collection, and the closure it was summed
\* over is the closure in that collection.
TotalsReflectMountedCollection ==
    sizer.ok =>
        \A id \in DOMAIN sizer.totalSizeCache :
            /\ transitiveDependenciesCache[id] \cup {id} =
                  Reach(modules, {id}, {})
            /\ sizer.totalSizeCache[id] =
                  SumSizes(modules,
                           Reach(modules, {id}, {}) \ sizer.ignoredModules)

AbsentIgnored ==
    \E id \in Range(ignoredModules) : findModule(modules, id) = NotFound

\* C19: findModule answers NotFound for exactly the ids no record has, and a
\* Sizer built with an ignore Set that holds such an id raises: no Sizer is
\* there to answer and nothing is returned; it is built when every ignored
\* id has a record.
AbsentIgnoredIdRaises ==
    /\ \A id \in Ids(modules) \cup Range(ignoredModules) :
          (findModule(modules, id) = NotFound) <=> (id \notin Ids(modules))
    /\ ~ sizerStale =>
          /\ sizer.ok <=> ~ AbsentIgnored
          /\ AbsentIgnored =>
                /\ threw = "sizer"
                /\ sizer.totalSizeCache = EmptyMap
                /\ sizer.uniqueSizeCache = EmptyMap
                /\ sizer.removedSizeCache = EmptyMap

\* the Sizer was built for an ignore Set whose second id has no record, the
\* first having one, and a query was made of it
AbsentIgnoredWitness ==
    /\ ~ sizerStale
    /\ Len(ignoredModules) > 1
    /\ findModule(modules, ignoredModules[1]) # NotFound
    /\ findModule(modules, ignoredModules[2]) = NotFound
    /\ ops > 0

\* C20: no two rows with different (entry point, path) share the key of a
\* unique size that was memoised, and no two with different (entry point,
\* module) share the key of a removed size that was memoised, ids with a NUL
\* in them or in front included.
MemoKeysInjective ==
    sizer.ok =>
        \A p, q \in Rows(modules) :
            /\ (/\ uniqueKey(p[1], p) \in DOMAIN sizer.uniqueSizeCache
                /\ p # q)
               => uniqueKey(q[1], q) # uniqueKey(p[1], p)
            /\ (/\ removedKey(p[1], Last(p)) \in DOMAIN sizer.removedSizeCache
                /\ <<p[1], Last(p)>> # <<q[1], Last(q)>>)
               => removedKey(q[1], Last(q)) # removedKey(p[1], Last(p))

====
